---- MODULE Spec2Model ----
(***************************************************************************)
(* Deduplicating tabular append of the ArtOfDelight scrapers.              *)
(*                                                                         *)
(* Strings are sequences of one-character strings, so that str.strip(),    *)
(* re.sub and the digest input are computed character by character.        *)
(* hashlib.sha256 is idealised as an injective tagging of its input.       *)
(* The spreadsheet is the sequence of its rows (row 1 is the header), each *)
(* row a sequence of cells; an append call that raises persists nothing.   *)
(***************************************************************************)
EXTENDS Integers, Sequences, FiniteSets, TLC

VARIABLES writer, store, seen, pc, run, R1, pos, calls, nhash, last, S0, S1,
          clean1, failedOnce, loaded, modes, everSeen,
          nvIn, nvOut, nvBack, zvOut, nvTwice,
          outlet, unit, total, missed, ext,
          hIn, hOut,
          mainPc, attempted, caught, swiggy_date_label, zomato_date_label,
          navAttempt, navUrl, gotos, success, validatedLoads,
          retries, wAttempt, wPc, wLog

vars == <<writer, store, seen, pc, run, R1, pos, calls, nhash, last, S0, S1,
          clean1, failedOnce, loaded, modes, everSeen,
          nvIn, nvOut, nvBack, zvOut, nvTwice,
          outlet, unit, total, missed, ext,
          hIn, hOut,
          mainPc, attempted, caught, swiggy_date_label, zomato_date_label,
          navAttempt, navUrl, gotos, success, validatedLoads,
          retries, wAttempt, wPc, wLog>>

gateVars == <<writer, store, seen, pc, run, R1, pos, calls, nhash, last, S0, S1,
              clean1, failedOnce, loaded, modes, everSeen>>

normVars == <<nvIn, nvOut, nvBack, zvOut, nvTwice>>

unitVars == <<outlet, unit, total, missed, ext>>

hashVars == <<hIn, hOut>>

mainVars == <<mainPc, attempted, caught, swiggy_date_label, zomato_date_label>>

navVars == <<navAttempt, navUrl, gotos, success, validatedLoads>>

waitVars == <<retries, wAttempt, wPc, wLog>>

procVars == <<mainVars, navVars, waitVars>>

\* what the steps of the append gate leave alone
otherVars == <<normVars, unitVars, hashVars, procVars>>

----------------------------------------------------------------------------
(* Bounds of the model *)

MaxRecords == 2
MaxInitRows == 1

----------------------------------------------------------------------------
(* Strings *)

E == <<>>

RECURSIVE LStrip(_)
LStrip(s) == IF s # <<>> /\ Head(s) = " " THEN LStrip(Tail(s)) ELSE s

RECURSIVE RStrip(_)
RStrip(s) == IF s # <<>> /\ s[Len(s)] = " " THEN RStrip(SubSeq(s, 1, Len(s) - 1)) ELSE s

\* str.strip()
Strip(s) == RStrip(LStrip(s))

\* list[1:], also of the empty list
Rest(rows) == SubSeq(rows, 2, Len(rows))

\* a row's cell at 1-based column c; the caller guards the length
Cell(row, c) == row[c]

Range(f) == {f[i] : i \in DOMAIN f}

----------------------------------------------------------------------------
(* Natural-Key Hasher *)

sha256(s) == <<"sha256", s>>

\* json.dumps(d, sort_keys=True) of a record: its fields in key order
JsonDumps(d) ==
    <<"{">> \o d.key \o <<";">> \o d.ts
            \o (IF "body" \in DOMAIN d THEN <<";">> \o d.body ELSE E) \o <<"}">>

generate_complaint_hash(d) ==
    LET complaint_id == Strip(d.key)
        timestamp == Strip(d.ts)
        unique_str == IF complaint_id # E THEN complaint_id ELSE timestamp
    IN  IF unique_str = E THEN sha256(JsonDumps(d)) ELSE sha256(unique_str)

generate_review_hash(d) ==
    LET order_id == Strip(d.key)
        timestamp == Strip(d.ts)
        unique_str == IF order_id # E THEN order_id ELSE timestamp
    IN  sha256(unique_str)

\* mutant: the digest is taken of the outlet id, not of the order id
generate_order_hash_OfOutlet(order_id) == sha256(<<"o">>)

generate_order_hash(order_id) == sha256(order_id)

----------------------------------------------------------------------------
(* Row layouts: the column order each writer appends *)

Writers == {"complaintsz", "reviews", "reviewsz", "complaints"}

\* 1-based position of the natural key in the rows a writer appends
KeyCol(w) ==
    CASE w = "complaintsz" -> 5
      [] w = "reviews" -> 1
      [] w = "reviewsz" -> 5
      [] w = "complaints" -> 2

RowComplaintsZ(rec) ==
    <<E, rec.body, E, E, rec.key, rec.ts, E, E, E>>

RowReviews(rec) ==
    <<rec.key, rec.ts, E, rec.body, E, E, E, E, E, E, E, E, E, E>>

RowReviewsZ(rec) ==
    <<E, E, E, rec.body, rec.key, rec.ts, E, E, E, E, E, E, E, E, E>>

RowComplaints(rec) ==
    <<E, rec.key, E, E, E, rec.body, E, E, E, E, E, E, E>>

RowOf(w, rec) ==
    CASE w = "complaintsz" -> RowComplaintsZ(rec)
      [] w = "reviews" -> RowReviews(rec)
      [] w = "reviewsz" -> RowReviewsZ(rec)
      [] w = "complaints" -> RowComplaints(rec)

Header(w) == [i \in 1..Len(RowOf(w, [key |-> E, ts |-> E, body |-> E])) |-> <<"H">>]

----------------------------------------------------------------------------
(* Existing-Key Index Loaders. Each takes what sheet.get_all_values() (or
   col_values) returned and gives [ok, seen]; ok = FALSE when the code raises. *)

\* mutant: the loader reads the Refund Amount column instead of the Complaint ID
LoadComplaintsZ_RefundColumn(rows) ==
    [ok |-> TRUE,
     seen |-> {generate_complaint_hash(
                   [key |-> Strip(Cell(row, 4)),
                    ts |-> IF Len(row) > 5 THEN Strip(Cell(row, 6)) ELSE E]) :
               row \in {r \in Range(Rest(rows)) : Len(r) > 4 /\ Strip(Cell(r, 4)) # E}}]

\* complaintsz.py: rows with more than 4 cells and a non-blank Complaint ID
LoadComplaintsZ(rows) ==
    [ok |-> TRUE,
     seen |-> {generate_complaint_hash(
                   [key |-> Strip(Cell(row, 5)),
                    ts |-> IF Len(row) > 5 THEN Strip(Cell(row, 6)) ELSE E]) :
               row \in {r \in Range(Rest(rows)) : Len(r) > 4 /\ Strip(Cell(r, 5)) # E}}]

\* a loader that does not read the last row of the sheet
LoadReviews_DropsLastRow(rows) ==
    LET oid(row) == IF Len(row) > 0 THEN Strip(Cell(row, 1)) ELSE E
        ts(row) == IF Len(row) > 1 THEN Strip(Cell(row, 2)) ELSE E
        kept == IF Len(rows) > 1 THEN SubSeq(rows, 2, Len(rows) - 1) ELSE <<>>
    IN  [ok |-> TRUE,
         seen |-> {generate_review_hash([key |-> oid(row), ts |-> ts(row)]) :
                   row \in {r \in Range(kept) : oid(r) # E}}]

\* reviews.py: a missing cell reads as the empty string
LoadReviews(rows) ==
    LET oid(row) == IF Len(row) > 0 THEN Strip(Cell(row, 1)) ELSE E
        ts(row) == IF Len(row) > 1 THEN Strip(Cell(row, 2)) ELSE E
    IN  [ok |-> TRUE,
         seen |-> {generate_review_hash([key |-> oid(row), ts |-> ts(row)]) :
                   row \in {r \in Range(Rest(rows)) : oid(r) # E}}]

\* worksheet.col_values(5): the fifth cell of every row, "" where a row has none
ColValues(rows, c) == [i \in 1..Len(rows) |-> IF Len(rows[i]) >= c THEN rows[i][c] ELSE E]

\* reviewsz.py: hashes the cell as read, keeps it when it is not blank
LoadReviewsZ(rows) ==
    LET order_ids == ColValues(rows, 5)
    IN  [ok |-> TRUE,
         seen |-> {generate_order_hash(order_id) :
                   order_id \in {o \in Range(Rest(order_ids)) : Strip(o) # E}}]

\* complaints.py: row[1] of every non-empty row; a one-cell row raises IndexError
LoadComplaints(rows) ==
    LET data == {r \in Range(Rest(rows)) : r # <<>>}
    IN  IF \E r \in data : Len(r) < 2
        THEN [ok |-> FALSE, seen |-> {}]
        ELSE [ok |-> TRUE, seen |-> {Cell(r, 2) : r \in data}]

----------------------------------------------------------------------------
(* Append Gates. Each gives the store and index after the call, the number of
   append calls issued, the number of digests computed and the outcome. *)

GateResult(st, sn, c, h, out) ==
    [store |-> st, seen |-> sn, calls |-> c, nhash |-> h, outcome |-> out]

\* mutant: the digest is added before the append call is made
GateComplaintsZ_IndexFirst(st, sn, rec, appendOk) ==
    LET complaint_id == Strip(rec.key)
        complaint_hash == generate_complaint_hash(rec)
    IN  IF complaint_id = E THEN GateResult(st, sn, 0, 0, "Rejected")
        ELSE IF complaint_hash \in sn THEN GateResult(st, sn, 0, 1, "Skipped")
        ELSE IF appendOk
             THEN GateResult(Append(st, RowComplaintsZ(rec)), sn \cup {complaint_hash},
                             1, 1, "Indexed")
             ELSE GateResult(st, sn \cup {complaint_hash}, 1, 1, "WriteFailed")

\* mutant: a failed append call is issued a second time
GateComplaintsZ_Retries(st, sn, rec, appendOk) ==
    LET complaint_id == Strip(rec.key)
        complaint_hash == generate_complaint_hash(rec)
    IN  IF complaint_id = E THEN GateResult(st, sn, 0, 0, "Rejected")
        ELSE IF complaint_hash \in sn THEN GateResult(st, sn, 0, 1, "Skipped")
        ELSE IF appendOk
             THEN GateResult(Append(st, RowComplaintsZ(rec)), sn \cup {complaint_hash},
                             1, 1, "Indexed")
             ELSE GateResult(st, sn, 2, 1, "WriteFailed")

\* complaintsz.py append_complaint_to_sheet
GateComplaintsZ(st, sn, rec, appendOk) ==
    LET complaint_id == Strip(rec.key)
        complaint_hash == generate_complaint_hash(rec)
    IN  IF complaint_id = E THEN GateResult(st, sn, 0, 0, "Rejected")
        ELSE IF complaint_hash \in sn THEN GateResult(st, sn, 0, 1, "Skipped")
        ELSE IF appendOk
             THEN GateResult(Append(st, RowComplaintsZ(rec)), sn \cup {complaint_hash},
                             1, 1, "Indexed")
             ELSE GateResult(st, sn, 1, 1, "WriteFailed")

\* mutant: a duplicate is reported but the function does not return
GateReviews_AppendsDuplicate(st, sn, rec, appendOk) ==
    LET order_id == Strip(rec.key)
        review_hash == generate_review_hash(rec)
    IN  IF order_id = E THEN GateResult(st, sn, 0, 0, "Rejected")
        ELSE IF appendOk
             THEN GateResult(Append(st, RowReviews(rec)), sn \cup {review_hash},
                             1, 1, "Indexed")
             ELSE GateResult(st, sn, 1, 1, "WriteFailed")

\* mutant: the digest is added before the append call is made
GateReviews_IndexFirst(st, sn, rec, appendOk) ==
    LET order_id == Strip(rec.key)
        review_hash == generate_review_hash(rec)
    IN  IF order_id = E THEN GateResult(st, sn, 0, 0, "Rejected")
        ELSE IF review_hash \in sn THEN GateResult(st, sn, 0, 1, "Skipped")
        ELSE IF appendOk
             THEN GateResult(Append(st, RowReviews(rec)), sn \cup {review_hash},
                             1, 1, "Indexed")
             ELSE GateResult(st, sn \cup {review_hash}, 1, 1, "WriteFailed")

\* reviews.py append_to_sheet
GateReviews(st, sn, rec, appendOk) ==
    LET order_id == Strip(rec.key)
        review_hash == generate_review_hash(rec)
    IN  IF order_id = E THEN GateResult(st, sn, 0, 0, "Rejected")
        ELSE IF review_hash \in sn THEN GateResult(st, sn, 0, 1, "Skipped")
        ELSE IF appendOk
             THEN GateResult(Append(st, RowReviews(rec)), sn \cup {review_hash},
                             1, 1, "Indexed")
             ELSE GateResult(st, sn, 1, 1, "WriteFailed")

\* mutant: the check for an empty order id is missing
GateReviewsZ_NoKeyCheck(st, sn, rec, appendOk) ==
    LET order_id == Strip(rec.key)
    IN  IF generate_order_hash(order_id) \in sn THEN GateResult(st, sn, 0, 1, "Skipped")
        ELSE IF appendOk
             THEN GateResult(Append(st, RowReviewsZ(rec)),
                             sn \cup {generate_order_hash(order_id)}, 1, 2, "Indexed")
             ELSE GateResult(st, sn, 1, 1, "WriteFailed")

\* reviewsz.py, the if / elif / else around push_to_sheet
GateReviewsZ(st, sn, rec, appendOk) ==
    LET order_id == Strip(rec.key)
    IN  IF order_id = E THEN GateResult(st, sn, 0, 0, "Rejected")
        ELSE IF generate_order_hash(order_id) \in sn THEN GateResult(st, sn, 0, 1, "Skipped")
        ELSE IF appendOk
             THEN GateResult(Append(st, RowReviewsZ(rec)),
                             sn \cup {generate_order_hash(order_id)}, 1, 2, "Indexed")
             ELSE GateResult(st, sn, 1, 1, "WriteFailed")

\* reviewsz.py extract_fields: the order id is the stripped line after "ID:"
ExtractFields(raw) == [raw EXCEPT !.key = Strip(raw.key)]

\* what the scraper hands to its gate for one scraped unit
Scraped(w, raw) == IF w = "reviewsz" THEN ExtractFields(raw) ELSE raw

\* the caller's own check before the gate is called (complaintsz.py 445-452,
\* reviews.py 633-635); reviewsz.py has the gate inline
CallerRejects(w, rec) == w \in {"complaintsz", "reviews"} /\ Strip(rec.key) = E

Gate(w, st, sn, rec, appendOk) ==
    IF CallerRejects(w, rec) THEN GateResult(st, sn, 0, 0, "Rejected")
    ELSE CASE w = "complaintsz" -> GateComplaintsZ(st, sn, rec, appendOk)
           [] w = "reviews" -> GateReviews(st, sn, rec, appendOk)
           [] w = "reviewsz" -> GateReviewsZ(st, sn, rec, appendOk)

\* complaints.py push_to_google_sheet: one append_rows call for the whole batch
PushBatch(st, data_rows, openOk, appendOk) ==
    LET ld == LoadComplaints(st)
        new_rows == SelectSeq(data_rows, LAMBDA row : Cell(row, 2) \notin ld.seen)
    IN  IF data_rows = <<>> THEN GateResult(st, {}, 0, 0, "Empty")
        ELSE IF ~openOk THEN GateResult(st, {}, 0, 0, "OpenFailed")
        ELSE IF ~ld.ok THEN GateResult(st, {}, 0, 0, "IndexError")
        ELSE IF new_rows = <<>> THEN GateResult(st, ld.seen, 0, 0, "Skipped")
        ELSE IF appendOk THEN GateResult(st \o new_rows, ld.seen, 1, 0, "Indexed")
        ELSE GateResult(st, ld.seen, 1, 0, "WriteFailed")

----------------------------------------------------------------------------
(* The scraped units and the sheets a run can start from *)

A1 == <<"A", "1">>
A2 == <<"A", "2">>

Keys == {E, <<" ">>, A1, <<" ", "A", "1">>, A2}
Bodies == {<<"x">>, <<"y">>}
\* the scraped units: every key, and one key with two different bodies
Records == {rec \in [key : Keys, ts : {E}, body : Bodies] : rec.body = <<"y">> => rec.key = A1}

NoRec == [key |-> E, ts |-> E, body |-> E]

NoInput == [tag |-> "none"]

RECURSIVE SeqsUpTo(_, _)
SeqsUpTo(S, n) ==
    IF n = 0 THEN {<<>>}
    ELSE LET shorter == SeqsUpTo(S, n - 1)
         IN  shorter \cup {Append(q, x) : q \in shorter, x \in S}

\* the natural key a stored row carries: its key cell, "" when the row is short
KeyOf(w, row) == IF Len(row) >= KeyCol(w) THEN Strip(row[KeyCol(w)]) ELSE E

\* number of data rows of the sheet whose natural key is k
RowsWithKey(w, st, k) == Cardinality({i \in 2..Len(st) : KeyOf(w, st[i]) = k})

NoDuplicateKeys(w, st) == \A k \in {Strip(x) : x \in Keys} \ {E} : RowsWithKey(w, st, k) <= 1

\* rows already in the sheet: a full row, a row that ends at its key cell, and a
\* row that ends one cell before the key column
InitRowSet(w) ==
    LET full(k) == RowOf(w, [key |-> k, ts |-> E, body |-> <<"x">>])
    IN  {full(A1), SubSeq(full(<<" ", "A", "1">>), 1, KeyCol(w)),
         SubSeq(full(A1), 1, KeyCol(w) - 1)}

InitStores(w) ==
    {st \in {<<Header(w)>> \o rows : rows \in SeqsUpTo(InitRowSet(w), MaxInitRows)} :
        NoDuplicateKeys(w, st)}

----------------------------------------------------------------------------
(* One run of a scraper: open the sheet, load the index, gate each record *)

PerRecord == {"complaintsz", "reviews", "reviewsz"}

\* the value_input_option of each script's append call; reviewsz.py passes none
\* and gets the default of gspread's append_row
value_input_option(w) ==
    CASE w = "complaintsz" -> "USER_ENTERED"
      [] w = "reviews" -> "USER_ENTERED"
      [] w = "reviewsz" -> "RAW"
      [] w = "complaints" -> "USER_ENTERED"
      [] w = "SwiggyMain" -> "USER_ENTERED"
      [] w = "ZomatoMain" -> "USER_ENTERED"

\* main.py, the page navigation and the wait helper are not running
NoMain ==
    /\ mainPc = "none" /\ attempted = <<>> /\ caught = {}
    /\ swiggy_date_label = E /\ zomato_date_label = E

NoNav == navAttempt = 0 /\ navUrl = 0 /\ gotos = 0 /\ success = FALSE /\ validatedLoads = 0

NoWait == retries = 0 /\ wAttempt = 0 /\ wPc = "none" /\ wLog = <<>>

NoProc == NoMain /\ NoNav /\ NoWait

\* no unit loop is running
NoUnits ==
    /\ outlet = 0 /\ unit = 0 /\ total = 0
    /\ missed = {}
    /\ ext = NoInput

Step(op, rec, outcome) == [op |-> op, rec |-> rec, outcome |-> outcome]

Init ==
    /\ writer \in Writers
    /\ store \in InitStores(writer)
    /\ S0 = store
    /\ S1 = <<>>
    /\ seen = {}
    /\ pc = "start"
    /\ run = 1
    /\ R1 = <<>>
    /\ pos = 1
    /\ calls = 0
    /\ nhash = 0
    /\ clean1 = TRUE
    /\ failedOnce = {}
    /\ loaded = FALSE
    /\ last = Step("init", NoRec, "none")
    /\ modes = {}
    /\ everSeen = {}
    /\ nvIn = NoInput /\ nvOut = NoInput /\ nvBack = NoInput /\ zvOut = NoInput
    /\ nvTwice = NoInput
    /\ NoUnits
    /\ hIn = NoInput /\ hOut = NoInput
    /\ NoProc

\* complaintsz.py 172-184: init_gsheet re-raises, get_all_values is outside any try
StartComplaintsZ(openOk, readOk) ==
    /\ writer = "complaintsz" /\ pc = "start"
    /\ IF openOk /\ readOk
       THEN /\ seen' = LoadComplaintsZ(store).seen
            /\ pc' = "gate" /\ loaded' = TRUE
            /\ last' = Step("load", NoRec, "ok")
       ELSE /\ pc' = "aborted" /\ UNCHANGED <<seen, loaded>>
            /\ last' = Step("load", NoRec, "raised")
    /\ UNCHANGED <<writer, store, run, R1, pos, calls, nhash, S0, S1, clean1, failedOnce, modes, otherVars>>
    /\ everSeen' = everSeen \cup seen'

\* reviewsz.py 160-161: init_sheet raises; get_existing_order_hashes returns set() on error
StartReviewsZ(openOk, readOk) ==
    /\ writer = "reviewsz" /\ pc = "start"
    /\ IF openOk
       THEN /\ seen' = IF readOk THEN LoadReviewsZ(store).seen ELSE {}
            /\ pc' = "gate" /\ loaded' = readOk
            /\ last' = Step("load", NoRec, IF readOk THEN "ok" ELSE "swallowed")
       ELSE /\ pc' = "aborted" /\ UNCHANGED <<seen, loaded>>
            /\ last' = Step("load", NoRec, "raised")
    /\ UNCHANGED <<writer, store, run, R1, pos, calls, nhash, S0, S1, clean1, failedOnce, modes, otherVars>>
    /\ everSeen' = everSeen \cup seen'

\* reviews.py 23-26: the sheet is opened when the module is imported
StartReviews(openOk) ==
    /\ writer = "reviews" /\ pc = "start"
    /\ pc' = IF openOk THEN "outlet" ELSE "aborted"
    /\ last' = Step("open", NoRec, IF openOk THEN "ok" ELSE "raised")
    /\ UNCHANGED <<writer, store, seen, run, R1, pos, calls, nhash, S0, S1, clean1, failedOnce, loaded,
                   modes, everSeen, otherVars>>

\* complaints.py: the sheet is opened only when the batch is pushed
StartComplaints ==
    /\ writer = "complaints" /\ pc = "start"
    /\ pc' = "gate"
    /\ last' = Step("scrape", NoRec, "ok")
    /\ UNCHANGED <<writer, store, seen, run, R1, pos, calls, nhash, S0, S1, clean1, failedOnce, loaded,
                   modes, everSeen, otherVars>>

\* reviews.py 596-611 called per outlet (957); a raise is caught per outlet (959)
BeginOutlet(readOk) ==
    /\ writer = "reviews" /\ pc \in {"outlet", "gate", "skip"}
    /\ IF readOk
       THEN /\ seen' = LoadReviews(store).seen
            /\ pc' = "gate" /\ loaded' = TRUE
            /\ last' = Step("load", NoRec, "ok")
       ELSE /\ seen' = {}
            /\ pc' = "skip" /\ loaded' = FALSE
            /\ last' = Step("load", NoRec, "raised")
    /\ UNCHANGED <<writer, store, run, R1, pos, calls, nhash, S0, S1, clean1, failedOnce, modes, otherVars>>
    /\ everSeen' = everSeen \cup seen'

\* one scraped unit goes through the caller's check and the gate
Process(raw, appendOk) ==
    /\ writer \in PerRecord /\ pc = "gate"
    /\ IF run = 1 THEN Len(R1) < MaxRecords ELSE pos <= Len(R1) /\ raw = R1[pos]
    /\ LET rec == Scraped(writer, raw)
           g == Gate(writer, store, seen, rec, appendOk)
       IN  /\ store' = g.store
           /\ seen' = g.seen
           /\ calls' = calls + g.calls
           /\ nhash' = nhash + g.nhash
           /\ last' = Step("gate", rec, g.outcome)
           /\ clean1' = (clean1 /\ (run = 1 => g.outcome # "WriteFailed"))
           /\ failedOnce' = IF g.calls = 1 /\ g.store = store
                            THEN failedOnce \cup {Strip(rec.key)} ELSE failedOnce
    /\ IF run = 1 THEN R1' = Append(R1, raw) /\ pos' = pos
                  ELSE R1' = R1 /\ pos' = pos + 1
    /\ everSeen' = everSeen \cup seen'
    /\ modes' = IF calls' > calls THEN modes \cup {value_input_option(writer)} ELSE modes
    /\ UNCHANGED <<writer, pc, run, S0, S1, loaded, otherVars>>

\* reviews.py: the units of an outlet whose load raised never reach the gate
SkipRecord ==
    /\ writer = "reviews" /\ pc = "skip" /\ run = 2 /\ pos <= Len(R1)
    /\ pos' = pos + 1
    /\ last' = Step("skip", R1[pos], "none")
    /\ UNCHANGED <<writer, store, seen, pc, run, R1, calls, nhash, S0, S1, clean1, failedOnce, loaded,
                   modes, everSeen, otherVars>>

\* complaints.py 268-310: the loop collects one row per complaint
Collect(raw) ==
    /\ writer = "complaints" /\ pc = "gate" /\ run = 1 /\ Len(R1) < MaxRecords
    /\ R1' = Append(R1, raw)
    /\ last' = Step("collect", raw, "none")
    /\ UNCHANGED <<writer, store, seen, pc, run, pos, calls, nhash, S0, S1, clean1, failedOnce, loaded,
                   modes, everSeen, otherVars>>

\* complaints.py 319-320 and push_to_google_sheet
Push(openOk, appendOk) ==
    /\ writer = "complaints" /\ pc = "gate"
    /\ LET data_rows == [i \in 1..Len(R1) |-> RowComplaints(R1[i])]
           g == PushBatch(store, data_rows, openOk, appendOk)
       IN  /\ store' = g.store
           /\ seen' = g.seen
           /\ calls' = calls + g.calls
           /\ last' = Step("push", NoRec, g.outcome)
           /\ loaded' = (g.outcome \in {"Skipped", "Indexed", "WriteFailed"})
           /\ clean1' = (clean1 /\ (run = 1 => g.outcome \in {"Empty", "Skipped", "Indexed"}))
    /\ pc' = "done"
    /\ everSeen' = everSeen \cup seen'
    /\ modes' = IF calls' > calls THEN modes \cup {value_input_option(writer)} ELSE modes
    /\ UNCHANGED <<writer, run, R1, pos, nhash, S0, S1, failedOnce, otherVars>>

\* the loops over outlets and units end
EndRun ==
    /\ writer \in PerRecord /\ pc \in {"outlet", "gate", "skip"}
    /\ run = 2 => pos > Len(R1)
    /\ pc' = "done"
    /\ last' = Step("end", NoRec, "none")
    /\ UNCHANGED <<writer, store, seen, run, R1, pos, calls, nhash, S0, S1, clean1, failedOnce, loaded,
                   modes, everSeen, otherVars>>

\* the scraper is started again later, on the same scraped units
SecondRun ==
    /\ pc \in {"done", "aborted"} /\ run = 1
    /\ run' = 2 /\ pc' = "start" /\ pos' = 1
    /\ S1' = store
    /\ seen' = {} /\ loaded' = FALSE /\ calls' = 0 /\ nhash' = 0
    /\ modes' = {} /\ everSeen' = {}
    /\ last' = Step("rerun", NoRec, "none")
    /\ UNCHANGED <<writer, store, R1, S0, clean1, failedOnce, otherVars>>

Next ==
    \/ \E openOk \in BOOLEAN, readOk \in BOOLEAN : StartComplaintsZ(openOk, readOk)
    \/ \E openOk \in BOOLEAN, readOk \in BOOLEAN : StartReviewsZ(openOk, readOk)
    \/ \E openOk \in BOOLEAN : StartReviews(openOk)
    \/ StartComplaints
    \/ \E readOk \in BOOLEAN : BeginOutlet(readOk)
    \/ \E raw \in Records, appendOk \in BOOLEAN : Process(raw, appendOk)
    \/ SkipRecord
    \/ \E raw \in Records : Collect(raw)
    \/ \E openOk \in BOOLEAN, appendOk \in BOOLEAN : Push(openOk, appendOk)
    \/ EndRun
    \/ SecondRun

Spec == Init /\ [][Next]_vars

----------------------------------------------------------------------------
(* Record Normalizer: SwiggyMain.py convert_value. A value is a string, an int
   or a float; a float is m / 10^e with m not divisible by 10 unless e = 0. *)

MaxValLen == 4

AsciiDigits == {"0", "1", "2", "3", "4", "5", "6", "7", "8", "9"}

\* a decimal digit outside ASCII: ARABIC-INDIC DIGIT THREE (U+0663)
ArabicThree == "u0663"

\* the characters the pattern \d matches in a str: decimal digits of any script
Digits == AsciiDigits \cup {ArabicThree}

\* the characters raw values are drawn from: of numbers and of "N/A"
NormChars == {"0", "1", "5", ".", ",", "N", "/", "A"}

\* the characters of "N/A" in either letter case
NaChars == {"N", "n", "/", "A", "a"}

DigitVal(c) ==
    CASE c = "0" -> 0 [] c = "1" -> 1 [] c = "2" -> 2 [] c = "3" -> 3 [] c = "4" -> 4
      [] c = "5" -> 5 [] c = "6" -> 6 [] c = "7" -> 7 [] c = "8" -> 8 [] c = "9" -> 9
      [] c = ArabicThree -> 3

DigitChar(d) == CHOOSE c \in AsciiDigits : DigitVal(c) = d

Str(s) == [tag |-> "Str", s |-> s]
Int_(v) == [tag |-> "Int", v |-> v]
NA == [tag |-> "NA"]

RECURSIVE Pow10(_)
Pow10(n) == IF n = 0 THEN 1 ELSE 10 * Pow10(n - 1)

\* a float value in lowest terms of its decimal expansion
RECURSIVE Float_(_, _)
Float_(m, e) ==
    IF e > 0 /\ m % 10 = 0 THEN Float_(m \div 10, e - 1)
    ELSE [tag |-> "Float", m |-> m, e |-> e]

\* int() of a string of digits
RECURSIVE DigitsToNat(_)
DigitsToNat(s) ==
    IF s = <<>> THEN 0
    ELSE 10 * DigitsToNat(SubSeq(s, 1, Len(s) - 1)) + DigitVal(s[Len(s)])

\* str() of a non-negative int
RECURSIVE NatToDigits(_)
NatToDigits(n) ==
    IF n < 10 THEN <<DigitChar(n)>>
    ELSE Append(NatToDigits(n \div 10), DigitChar(n % 10))

\* the digits of n, left-padded with zeros to width w
RECURSIVE PadDigits(_, _)
PadDigits(n, w) ==
    LET d == NatToDigits(n) IN IF Len(d) >= w THEN d ELSE <<"0">> \o PadDigits(n, w - 1)

\* repr() of a float: fixed notation from 1e-4 up, exponent notation below
\* (the exponent notation from 1e16 up lies beyond the values of the model)
FloatStr(f) ==
    IF f.m = 0 THEN <<"0", ".", "0">>
    ELSE IF f.e = 0 THEN NatToDigits(f.m) \o <<".", "0">>
    ELSE IF f.m * 10000 >= Pow10(f.e)
         THEN NatToDigits(f.m \div Pow10(f.e)) \o <<".">> \o PadDigits(f.m % Pow10(f.e), f.e)
    ELSE LET d == NatToDigits(f.m)
             x == f.e - Len(d) + 1
         IN  <<Head(d)>> \o (IF Len(d) > 1 THEN <<".">> \o Tail(d) ELSE E)
                 \o <<"e", "-">> \o PadDigits(x, 2)

\* str(val)
PyStr(val) ==
    CASE val.tag = "Str" -> val.s
      [] val.tag = "Int" -> NatToDigits(val.v)
      [] val.tag = "Float" -> FloatStr(val)

\* not val
Falsy(val) ==
    CASE val.tag = "Str" -> val.s = E
      [] val.tag = "Int" -> val.v = 0
      [] val.tag = "Float" -> val.m = 0

\* mutant: the pattern keeps the digits only
Cleaned_DropsPoints(s) == SelectSeq(s, LAMBDA c : c \in Digits)

\* re.sub(r'[^\d.]', '', s)
Cleaned(s) == SelectSeq(s, LAMBDA c : c \in Digits \/ c = ".")

CountDots(s) == Cardinality({i \in 1..Len(s) : s[i] = "."})

\* float(cleaned) of a string of digits and points: ValueError unless it has
\* one point and a digit
ParseFloat(cleaned) ==
    IF CountDots(cleaned) # 1 \/ Len(cleaned) < 2 THEN [ok |-> FALSE]
    ELSE LET p == CHOOSE i \in 1..Len(cleaned) : cleaned[i] = "."
             whole == SubSeq(cleaned, 1, p - 1)
             frac == SubSeq(cleaned, p + 1, Len(cleaned))
         IN  [ok |-> TRUE, val |-> Float_(DigitsToNat(whole \o frac), Len(frac))]

\* mutant: the pattern also keeps the thousands separator
convert_value_KeepsCommas(val) ==
    IF val = Str(<<"N", "/", "A">>) \/ Falsy(val) THEN NA
    ELSE LET kept == SelectSeq(PyStr(val), LAMBDA c : c \in Digits \/ c \in {".", ","})
             cleaned == Cleaned(kept)
         IN  IF \E i \in 1..Len(kept) : kept[i] = "."
             THEN LET f == ParseFloat(cleaned)
                  IN  IF f.ok /\ kept = cleaned THEN f.val ELSE NA
             ELSE IF kept # E /\ kept = cleaned THEN Int_(DigitsToNat(cleaned)) ELSE NA

\* the exception float() raises on a string that is not a number
ValueError == [tag |-> "ValueError"]

\* the try block of convert_value (280-284): its result, or the exception raised
convert_value_try(val) ==
    LET cleaned == Cleaned(PyStr(val))
    IN  IF \E i \in 1..Len(cleaned) : cleaned[i] = "."
        THEN LET f == ParseFloat(cleaned) IN IF f.ok THEN f.val ELSE ValueError
        ELSE IF cleaned # E THEN Int_(DigitsToNat(cleaned)) ELSE NA

\* mutant: the except clause re-raises
convert_value_Reraises(val) ==
    IF val = Str(<<"N", "/", "A">>) \/ Falsy(val) THEN NA
    ELSE convert_value_try(val)

convert_value(val) ==
    IF val = Str(<<"N", "/", "A">>) \/ Falsy(val) THEN NA
    ELSE LET r == convert_value_try(val)
         IN  IF r = ValueError THEN NA ELSE r

\* characters of units, spacing, currency ("Rs" stands for the rupee glyph) and
\* a digit of another script
UnitChars == {"1", ".", " ", "m", "%", "Rs", ArabicThree}

\* the dashboard values of the prompt (92-94): "85.0%", "12.5 min", "Rs9,600"
DashboardValues ==
    {<<"8", "5", ".", "0", "%">>,
     <<"1", "2", ".", "5", " ", "m", "i", "n">>,
     <<"Rs", "9", ",", "6", "0", "0">>}

\* a value below 0.0001, which repr() writes in exponent notation
SmallValues == {<<".", "0", "0", "0", "0", "1">>}

NaText == <<"N", "/", "A">>

NotFoundText == <<"N", "o", "t", " ", "f", "o", "u", "n", "d">>

\* float(s) of a string of the model's characters
PyFloat(s) ==
    LET t == Strip(s)
    IN  IF /\ \A i \in 1..Len(t) : t[i] \in Digits \/ t[i] = "."
           /\ CountDots(t) <= 1
           /\ \E i \in 1..Len(t) : t[i] \in Digits
        THEN IF CountDots(t) = 1 THEN ParseFloat(t)
             ELSE [ok |-> TRUE, val |-> Float_(DigitsToNat(t), 0)]
        ELSE [ok |-> FALSE]

\* s.replace(c, "") for one character
Without(s, c) == SelectSeq(s, LAMBDA x : x # c)

Contains(s, c) == \E i \in 1..Len(s) : s[i] = c

\* ZomatoMain.py 684-692: the value written, or the exception float() raises
zomato_cleaned_value(value) ==
    IF value.tag = "Str" /\ value.s \notin {NaText, NotFoundText}
    THEN LET s == value.s
             t == IF Contains(s, "Rs") THEN Without(Without(s, "Rs"), ",")
                  ELSE IF Contains(s, "%") THEN Without(Without(s, "%"), ",")
                  ELSE Without(s, ",")
             f == PyFloat(t)
         IN  IF f.ok THEN f.val ELSE ValueError
    ELSE value

\* the texts extract_third_last_values can give: a match of the pattern
\* [\d,.]+%? or of Rs[\d,.]+ , "N/A", "Not found"
ZomatoRaw(s) ==
    LET body(t) == t # E /\ \A i \in 1..Len(t) : t[i] \in Digits \cup {",", "."}
    IN  \/ s \in {NaText, NotFoundText}
        \/ body(s)
        \/ Len(s) > 1 /\ s[Len(s)] = "%" /\ body(SubSeq(s, 1, Len(s) - 1))
        \/ Len(s) > 1 /\ s[1] = "Rs" /\ body(Tail(s))

\* the raw values handed to the normalizer, the strings up to len characters
NormInputs(len) ==
    {Str(s) : s \in SeqsUpTo(NormChars, len)}
        \cup {Str(s) : s \in SeqsUpTo(NaChars, len)}
        \cup {Str(s) : s \in SeqsUpTo(UnitChars, len)}
        \cup {Str(s) : s \in DashboardValues \cup SmallValues \cup {NotFoundText}}
        \cup {Int_(v) : v \in {0, 1, 15}}
        \cup {Float_(0, 0), Float_(15, 1), Float_(1, 5)}

InitNorm ==
    /\ writer = "reviews"
    /\ store = <<Header("reviews")>>
    /\ S0 = store
    /\ S1 = <<>>
    /\ seen = {}
    /\ pc = "start"
    /\ run = 1
    /\ R1 = <<>>
    /\ pos = 1
    /\ calls = 0
    /\ nhash = 0
    /\ clean1 = TRUE
    /\ failedOnce = {}
    /\ loaded = FALSE
    /\ last = Step("init", NoRec, "none")
    /\ modes = {}
    /\ everSeen = {}
    /\ nvIn \in NormInputs(MaxValLen)
    /\ nvOut = NoInput
    /\ nvBack = NoInput
    /\ zvOut = NoInput
    /\ nvTwice = NoInput
    /\ NoUnits
    /\ hIn = NoInput /\ hOut = NoInput
    /\ NoProc

\* SwiggyMain.py 1029: one raw metric value is normalized
Convert ==
    /\ nvOut = NoInput
    /\ nvOut' = convert_value(nvIn)
    /\ UNCHANGED <<nvIn, nvBack, zvOut, nvTwice, gateVars, unitVars, hashVars, procVars>>

\* the normalized number is written back as a string and normalized again
WriteBack ==
    /\ nvOut # NoInput /\ nvOut.tag \in {"Int", "Float"} /\ nvBack = NoInput
    /\ nvBack' = convert_value(Str(PyStr(nvOut)))
    /\ UNCHANGED <<nvIn, nvOut, zvOut, nvTwice, gateVars, unitVars, hashVars, procVars>>

\* ZomatoMain.py 684-692: one raw metric value of the report is converted
ConvertZomato ==
    /\ nvIn.tag = "Str" /\ ZomatoRaw(nvIn.s) /\ zvOut = NoInput
    /\ zvOut' = zomato_cleaned_value(nvIn)
    /\ UNCHANGED <<nvIn, nvOut, nvBack, nvTwice, gateVars, unitVars, hashVars, procVars>>

\* the value convert_value returned, as the Python value it is
AsPython(v) == IF v = NA THEN Str(NaText) ELSE v

\* convert_value is applied to its own result
ConvertAgain ==
    /\ nvOut # NoInput /\ nvTwice = NoInput
    /\ nvTwice' = convert_value(AsPython(nvOut))
    /\ UNCHANGED <<nvIn, nvOut, nvBack, zvOut, gateVars, unitVars, hashVars, procVars>>

NextNorm == Convert \/ WriteBack \/ ConvertZomato \/ ConvertAgain

SpecNorm == InitNorm /\ [][NextNorm]_vars

----------------------------------------------------------------------------
(* The loops over the outlets and over the units of an outlet (complaints,
   reviews, dashboards), with the extraction of each unit's record and its
   write. The k-th complaint or review of the o-th outlet is the unit <<o, k>>;
   missed holds the units that were found and that the loop never reached. *)

MaxOutlets == 2
MaxUnits == 2

Scripts == {"complaintsz", "reviewsz", "reviews", "SwiggyMain", "ZomatoMain"}

Dashboards == {"SwiggyMain", "ZomatoMain"}

\* reviewsz.py 228: at most ten reviews of an outlet are opened
MaxReviewsPerOutlet == 10

Min(a, b) == IF a <= b THEN a ELSE b

\* --- the text-generation service ---

\* the character of a code fence (the grave accent)
Backtick == "grave"

Fence == <<Backtick, Backtick, Backtick>>

JsonFence == Fence \o <<"j", "s", "o", "n">>

\* the JSON document of the model
JsonDoc == <<"{", "}">>

\* response texts: bare JSON, JSON in a json fence, JSON in a plain fence, JSON
\* after a json fence that is never closed, JSON between spaces, and prose
Responses ==
    {JsonDoc,
     JsonFence \o JsonDoc \o Fence,
     Fence \o JsonDoc \o Fence,
     JsonFence \o JsonDoc,
     <<" ">> \o JsonDoc \o <<" ">>,
     <<"x">>}

\* s.startswith(p)
StartsWith(s, p) == Len(s) >= Len(p) /\ SubSeq(s, 1, Len(p)) = p

\* s[a:-3]
SliceToFence(s, a) == IF Len(s) - 3 > a THEN SubSeq(s, a + 1, Len(s) - 3) ELSE E

\* s.replace(p, "")
RECURSIVE Remove(_, _)
Remove(s, p) ==
    IF s = E THEN E
    ELSE IF StartsWith(s, p) THEN Remove(SubSeq(s, Len(p) + 1, Len(s)), p)
    ELSE <<Head(s)>> \o Remove(Tail(s), p)

\* json.loads(text) returns: text is the document, white space around it allowed
JsonLoads(text) == Strip(text) = JsonDoc

\* who produced the unit's record: "gemini", "regex" or "none" (the unit is dropped)
Extraction(up, response, via) == [up |-> up, response |-> response, via |-> via]

\* SwiggyMain.py 52-116; model is None when the key is missing (24-29)
extract_all_metrics_with_gemini(model, up, response) ==
    IF ~model THEN "regex"
    ELSE IF ~up THEN "regex"
    ELSE LET result_text == Strip(response)
             inner == IF StartsWith(result_text, JsonFence) THEN SliceToFence(result_text, 7)
                      ELSE IF StartsWith(result_text, Fence) THEN SliceToFence(result_text, 3)
                      ELSE result_text
         IN  IF JsonLoads(inner) THEN "gemini" ELSE "regex"

\* complaintsz.py 86-109: None on any failure
parse_complaint_with_gemini(up, response) ==
    IF ~up THEN "none"
    ELSE LET cleaned == Strip(Remove(Remove(Strip(response), JsonFence), Fence))
         IN  IF JsonLoads(cleaned) THEN "gemini" ELSE "none"

\* reviews.py 185-208: None on any failure
parse_review_with_gemini(up, response) ==
    IF ~up THEN "none"
    ELSE LET cleaned == Strip(Remove(Remove(Strip(response), JsonFence), Fence))
         IN  IF JsonLoads(cleaned) THEN "gemini" ELSE "none"

\* --- the dashboard-metrics writers ---

\* the report date both writers stamp their rows with
ReportDate == "report-date"

\* the o-th entry of the work list, a string of digits
OutletIdOf(o) == NatToDigits(100 + o)

SwiggyLabels == <<"Delivered Orders", "Online %">>

ZomatoLabels == <<"Delivered orders", "Online %">>

LabelsOf(w) == IF w = "SwiggyMain" THEN SwiggyLabels ELSE ZomatoLabels

\* raw metric values: absent, a count, a text that keeps two decimal points,
\* the sentinel in lower case, a numeric zero
SwiggyValues ==
    {Str(NaText), Str(<<"1", "5">>), Str(<<"1", ".", "5", ".">>),
     Str(<<"n", "/", "a">>), Int_(0)}

\* extract_third_last_values: matches of [\d,.]+%?|Rs[\d,.]+, "N/A", "Not found"
ZomatoValues ==
    {Str(NaText), Str(NotFoundText), Str(<<"Rs", "1", ",", "5">>), Str(<<"1", ".", "5", ".">>)}

SourceOf(w) == IF w = "SwiggyMain" THEN "Swiggy" ELSE "Zomato"

\* the result of a metrics loop: the sheet and the append calls issued
Written(st, c) == [store |-> st, calls |-> c]

\* SwiggyMain.py 1027-1041: one append per metric that is not "N/A"; the
\* appends of the labels in fails raise
RECURSIVE WriteSwiggy(_, _, _, _, _)
WriteSwiggy(st, rid, metrics, fails, i) ==
    IF i > Len(SwiggyLabels) THEN Written(st, 0)
    ELSE LET label == SwiggyLabels[i]
             raw_value == metrics[label]
         IN  IF raw_value = Str(NaText) THEN WriteSwiggy(st, rid, metrics, fails, i + 1)
             ELSE LET row == <<ReportDate, DigitsToNat(rid), label,
                                convert_value(raw_value), "Swiggy">>
                      st2 == IF label \in fails THEN st ELSE Append(st, row)
                      rest == WriteSwiggy(st2, rid, metrics, fails, i + 1)
                  IN  Written(rest.store, rest.calls + 1)

\* ZomatoMain.py 677-705: one append per metric whose conversion does not raise
RECURSIVE WriteZomato(_, _, _, _, _)
WriteZomato(st, outlet_id, parsed_data, fails, i) ==
    IF i > Len(ZomatoLabels) THEN Written(st, 0)
    ELSE LET metric == ZomatoLabels[i]
             cleaned_value == zomato_cleaned_value(parsed_data[metric])
         IN  IF cleaned_value = ValueError
             THEN WriteZomato(st, outlet_id, parsed_data, fails, i + 1)
             ELSE LET row == <<ReportDate, DigitsToNat(outlet_id), metric,
                                cleaned_value, "Zomato">>
                      st2 == IF metric \in fails THEN st ELSE Append(st, row)
                      rest == WriteZomato(st2, outlet_id, parsed_data, fails, i + 1)
                  IN  Written(rest.store, rest.calls + 1)

\* a row an earlier run of the same report date left in the sheet
EarlierRow(w) ==
    <<ReportDate, DigitsToNat(OutletIdOf(1)), LabelsOf(w)[1],
      IF w = "SwiggyMain" THEN Int_(15) ELSE Float_(15, 0), SourceOf(w)>>

\* the sheet a script starts on
UnitInitStores(w) ==
    IF w \in Dashboards THEN {<<>>, <<EarlierRow(w)>>} ELSE {<<Header(w)>>}

\* the records the units of an outlet are parsed to
UnitRecords == {rec \in Records : rec.body = <<"x">> /\ rec.key \in {E, A1}}

\* --- the loops ---

InitUnits ==
    /\ writer \in Scripts
    /\ store \in UnitInitStores(writer)
    /\ S0 = store
    /\ S1 = <<>>
    /\ seen = {}
    /\ pc = "outlets"
    /\ run = 1
    /\ R1 = <<>>
    /\ pos = 1
    /\ calls = 0
    /\ nhash = 0
    /\ clean1 = TRUE
    /\ failedOnce = {}
    /\ loaded = (writer \in {"complaintsz", "reviewsz"})
    /\ last = Step("init", NoRec, "none")
    /\ modes = {}
    /\ everSeen = {}
    /\ nvIn = NoInput /\ nvOut = NoInput /\ nvBack = NoInput /\ zvOut = NoInput
    /\ nvTwice = NoInput
    /\ outlet = 1 /\ unit = 0 /\ total = 0
    /\ missed = {}
    /\ ext = NoInput
    /\ hIn = NoInput /\ hOut = NoInput
    /\ NoProc

\* the loop goes on with the outlet's next unit ("continue"), or leaves the
\* outlet after its last unit, a break or an exception and goes on with the
\* next outlet
Advance(flow) ==
    IF flow = "continue" /\ unit < total
    THEN /\ unit' = unit + 1
         /\ UNCHANGED <<outlet, total, pc, missed>>
    ELSE /\ unit' = 0 /\ total' = 0
         /\ outlet' = outlet + 1
         /\ pc' = IF outlet = MaxOutlets THEN "done" ELSE "outlets"
         /\ missed' = missed \cup {<<outlet, k>> : k \in (unit + 1)..total}

\* what one gate call of a unit does to the sheet and the index
GateEffect(g) ==
    /\ store' = g.store
    /\ seen' = g.seen
    /\ everSeen' = everSeen \cup g.seen
    /\ modes' = IF g.calls > 0 THEN modes \cup {value_input_option(writer)} ELSE modes

\* the unit never reaches the gate
NoGate == UNCHANGED <<store, seen, everSeen, modes>>

\* the head of the loop over the outlets: the outlet is selected and its n
\* units are found, or the selection fails and the loop continues
\* (complaintsz.py 347-398, reviewsz.py 195-229, reviews.py 917-957,
\* SwiggyMain.py 831-1020, ZomatoMain.py 482-672)
SelectOutlet(ev, n) ==
    /\ pc = "outlets"
    /\ LET count == IF writer \in Dashboards THEN 1
                    ELSE IF writer = "reviewsz" THEN Min(n, MaxReviewsPerOutlet)
                    ELSE n
       IN  IF ev = "found" /\ count > 0
           THEN /\ total' = count /\ unit' = 1 /\ pc' = "units"
                /\ seen' = IF writer = "reviews" THEN LoadReviews(store).seen ELSE seen
                /\ loaded' = (loaded \/ writer = "reviews")
                /\ UNCHANGED outlet
           ELSE /\ unit' = 0 /\ total' = 0
                /\ outlet' = outlet + 1
                /\ pc' = IF outlet = MaxOutlets THEN "done" ELSE "outlets"
                /\ UNCHANGED <<seen, loaded>>
    /\ everSeen' = everSeen \cup seen'
    /\ last' = Step("outlet", NoRec, ev)
    /\ UNCHANGED <<writer, store, run, R1, pos, calls, nhash, S0, S1, clean1, failedOnce, modes,
                   missed, ext, normVars, hashVars, procVars>>

\* complaintsz.py 404-512: one complaint of the outlet
ProcessComplaint(ev, after, up, response, rec, appendOk) ==
    /\ writer = "complaintsz" /\ pc = "units"
    /\ IF ev \in {"no_button", "click_failed", "text_failed"}
       THEN /\ NoGate /\ UNCHANGED ext
            /\ last' = Step("unit", NoRec, ev)
            /\ Advance("continue")
       ELSE LET via == parse_complaint_with_gemini(up, response)
                g == Gate(writer, store, seen, rec, appendOk)
            IN  /\ ext' = Extraction(up, response, via)
                /\ IF via = "none"
                   THEN NoGate /\ last' = Step("unit", NoRec, "dropped")
                   ELSE GateEffect(g) /\ last' = Step("unit", NoRec, g.outcome)
                /\ Advance(IF unit < total /\ after = "reselect_failed"
                           THEN "break" ELSE "continue")
    /\ UNCHANGED <<writer, run, R1, pos, calls, nhash, S0, S1, clean1, failedOnce, loaded,
                   normVars, hashVars, procVars>>

\* reviewsz.py 231-291: one review of the outlet
ProcessReviewZ(ev, raw, appendOk) ==
    /\ writer = "reviewsz" /\ pc = "units"
    /\ IF ev \in {"no_button", "click_failed"}
       THEN /\ NoGate
            /\ last' = Step("unit", NoRec, ev)
            /\ Advance(IF ev = "no_button" THEN "break" ELSE "raise")
       ELSE IF ev = "modal_failed"
       THEN /\ NoGate
            /\ last' = Step("unit", NoRec, ev)
            /\ Advance("continue")
       ELSE LET rec == Scraped(writer, raw)
                g == Gate(writer, store, seen, rec, appendOk)
            IN  /\ GateEffect(g)
                /\ last' = Step("unit", NoRec, g.outcome)
                /\ Advance("continue")
    /\ UNCHANGED <<writer, run, R1, pos, calls, nhash, S0, S1, clean1, failedOnce, loaded,
                   ext, normVars, hashVars, procVars>>

\* reviews.py 618-666: one review label of the outlet
ProcessReview(ev, up, response, rec, appendOk) ==
    /\ writer = "reviews" /\ pc = "units"
    /\ IF ev \in {"click_failed", "no_text"}
       THEN /\ NoGate /\ UNCHANGED ext
            /\ last' = Step("unit", NoRec, ev)
       ELSE LET via == parse_review_with_gemini(up, response)
                g == Gate(writer, store, seen, rec, appendOk)
            IN  /\ ext' = Extraction(up, response, via)
                /\ IF via = "none"
                   THEN NoGate /\ last' = Step("unit", NoRec, "dropped")
                   ELSE GateEffect(g) /\ last' = Step("unit", NoRec, g.outcome)
    /\ Advance("continue")
    /\ UNCHANGED <<writer, run, R1, pos, calls, nhash, S0, S1, clean1, failedOnce, loaded,
                   normVars, hashVars, procVars>>

\* what the metrics loop of a dashboard does to the sheet
MetricsEffect(w) ==
    /\ store' = w.store
    /\ modes' = IF w.calls > 0 THEN modes \cup {value_input_option(writer)} ELSE modes
    /\ UNCHANGED <<seen, everSeen>>

\* SwiggyMain.py 1023-1046: the metrics of one RID are extracted and written
ProcessRid(model, up, response, metrics, fails) ==
    /\ writer = "SwiggyMain" /\ pc = "units"
    /\ ext' = Extraction(model /\ up, response,
                         extract_all_metrics_with_gemini(model, up, response))
    /\ MetricsEffect(WriteSwiggy(store, OutletIdOf(outlet), metrics, fails, 1))
    /\ last' = Step("unit", NoRec, "written")
    /\ Advance("continue")
    /\ UNCHANGED <<writer, run, R1, pos, calls, nhash, S0, S1, clean1, failedOnce, loaded,
                   normVars, hashVars, procVars>>

\* ZomatoMain.py 672-705: the metrics of one outlet are extracted and written
ProcessZomatoOutlet(parsed_data, fails) ==
    /\ writer = "ZomatoMain" /\ pc = "units"
    /\ MetricsEffect(WriteZomato(store, OutletIdOf(outlet), parsed_data, fails, 1))
    /\ last' = Step("unit", NoRec, "written")
    /\ Advance("continue")
    /\ UNCHANGED <<writer, run, R1, pos, calls, nhash, S0, S1, clean1, failedOnce, loaded,
                   ext, normVars, hashVars, procVars>>

\* the responses of the service when it is up; it gives none when it is down
ResponsesWhen(up) == IF up THEN Responses ELSE {E}

\* the labels of a metrics dictionary whose append call is issued
Issued(w, metrics) ==
    {l \in Range(LabelsOf(w)) :
        IF w = "SwiggyMain" THEN metrics[l] # Str(NaText)
        ELSE zomato_cleaned_value(metrics[l]) # ValueError}

NextUnits ==
    \/ \E ev \in {"error", "found"}, n \in 0..MaxUnits : SelectOutlet(ev, n)
    \/ \E ev \in {"no_button", "click_failed", "text_failed"} :
            ProcessComplaint(ev, "ok", FALSE, E, NoRec, TRUE)
    \/ \E after \in {"ok", "reload_failed", "reselect_failed"}, up \in BOOLEAN :
          \E response \in ResponsesWhen(up), rec \in UnitRecords, appendOk \in BOOLEAN :
            ProcessComplaint("opened", after, up, response, rec, appendOk)
    \/ \E ev \in {"no_button", "click_failed", "modal_failed"} :
            ProcessReviewZ(ev, NoRec, TRUE)
    \/ \E raw \in UnitRecords, appendOk \in BOOLEAN :
            ProcessReviewZ("opened", raw, appendOk)
    \/ \E ev \in {"click_failed", "no_text"} :
            ProcessReview(ev, FALSE, E, NoRec, TRUE)
    \/ \E up \in BOOLEAN :
          \E response \in ResponsesWhen(up), rec \in UnitRecords, appendOk \in BOOLEAN :
            ProcessReview("opened", up, response, rec, appendOk)
    \/ \E model \in BOOLEAN, metrics \in [Range(SwiggyLabels) -> SwiggyValues] :
          \E up \in IF model THEN BOOLEAN ELSE {FALSE} :
             \E response \in ResponsesWhen(up), fails \in SUBSET Issued("SwiggyMain", metrics) :
                ProcessRid(model, up, response, metrics, fails)
    \/ \E parsed_data \in [Range(ZomatoLabels) -> ZomatoValues] :
          \E fails \in SUBSET Issued("ZomatoMain", parsed_data) :
            ProcessZomatoOutlet(parsed_data, fails)

SpecUnits == InitUnits /\ [][NextUnits]_vars

----------------------------------------------------------------------------
(* The Natural-Key Hasher applied to pairs of records *)

\* the digest a writer's gate computes for a record
DigestOf(w, rec) ==
    CASE w = "complaintsz" -> generate_complaint_hash(rec)
      [] w = "reviews" -> generate_review_hash(rec)
      [] w = "reviewsz" -> generate_order_hash(Strip(rec.key))

\* parsed records: the key field, the timestamp field and one other field
HashRecords == [key : {E, <<" ">>, A1, A2}, ts : {E, <<"t">>}, body : Bodies]

InitHash ==
    /\ writer \in PerRecord
    /\ store = <<Header(writer)>>
    /\ S0 = store
    /\ S1 = <<>>
    /\ seen = {}
    /\ pc = "start"
    /\ run = 1
    /\ R1 = <<>>
    /\ pos = 1
    /\ calls = 0
    /\ nhash = 0
    /\ clean1 = TRUE
    /\ failedOnce = {}
    /\ loaded = FALSE
    /\ last = Step("init", NoRec, "none")
    /\ modes = {}
    /\ everSeen = {}
    /\ nvIn = NoInput /\ nvOut = NoInput /\ nvBack = NoInput /\ zvOut = NoInput
    /\ nvTwice = NoInput
    /\ NoUnits
    /\ hIn \in HashRecords \X HashRecords
    /\ hOut = NoInput
    /\ NoProc

\* the writer's hasher is called on each record of the pair
ApplyHasher ==
    /\ hIn # NoInput /\ hOut = NoInput
    /\ hOut' = <<DigestOf(writer, hIn[1]), DigestOf(writer, hIn[2])>>
    /\ UNCHANGED <<gateVars, normVars, unitVars, hIn, procVars>>

NextHash == ApplyHasher

SpecHash == InitHash /\ [][NextHash]_vars

----------------------------------------------------------------------------
(* main.py: the date inputs and the sequence of the enabled steps *)

\* the steps main.py runs, in the order of its try blocks; the other three
\* are commented out
Steps == <<"Swiggy Reviews", "Swiggy Main Dashboard", "Zomato Main Dashboard">>

UnknownDate == <<"U", "n", "k", "n", "o", "w", "n", " ", "D", "a", "t", "e">>

DefaultZomatoDate == <<"2", "0", "2", "5", "-", "0", "1", "-", "0", "1">>

\* what the operator types for the Swiggy date label
SwiggyDateInputs ==
    {E, <<" ">>, <<"S", "e", "p">>, <<" ", "S", "e", "p", " ">>, <<"O", "c", "t">>,
     <<"N", "o", "v">>}

\* what the operator types for the Zomato report date
ZomatoDateInputs ==
    {E, <<"0", "1", "/", "0", "9", "/", "2", "5">>, <<"1", "/", "9", "/", "2", "5">>,
     <<"3", "1", "/", "0", "2", "/", "2", "5">>, <<"2", "9", "/", "0", "2", "/", "2", "4">>,
     <<"1", "5", "/", "1", "2", "/", "9", "9">>,
     <<"2", "0", "2", "5", "-", "0", "9", "-", "0", "1">>}

IsLeap(y) == (y % 4 = 0 /\ y % 100 # 0) \/ y % 400 = 0

DaysIn(m, y) ==
    IF m = 2 THEN (IF IsLeap(y) THEN 29 ELSE 28)
    ELSE IF m \in {4, 6, 9, 11} THEN 30 ELSE 31

\* datetime.strptime(s, "%d/%m/%y"): one or two digits, "/", one or two
\* digits, "/", two digits; the day must exist in the month
Strptime(s) ==
    LET slashes == {i \in 1..Len(s) : s[i] = "/"}
        AllDigits(t) == t # E /\ \A i \in 1..Len(t) : t[i] \in AsciiDigits
    IN  IF Cardinality(slashes) # 2 THEN [ok |-> FALSE]
        ELSE LET p == CHOOSE i \in slashes : \A j \in slashes : i <= j
                 q == CHOOSE i \in slashes : \A j \in slashes : i >= j
                 dd == SubSeq(s, 1, p - 1)
                 mm == SubSeq(s, p + 1, q - 1)
                 yy == SubSeq(s, q + 1, Len(s))
             IN  IF /\ AllDigits(dd) /\ Len(dd) <= 2
                    /\ AllDigits(mm) /\ Len(mm) <= 2
                    /\ AllDigits(yy) /\ Len(yy) = 2
                 THEN LET d == DigitsToNat(dd)
                          m == DigitsToNat(mm)
                          y == IF DigitsToNat(yy) <= 68 THEN 2000 + DigitsToNat(yy)
                               ELSE 1900 + DigitsToNat(yy)
                      IN  IF m \in 1..12 /\ d >= 1 /\ d <= DaysIn(m, y)
                          THEN [ok |-> TRUE, d |-> d, m |-> m, y |-> y]
                          ELSE [ok |-> FALSE]
                 ELSE [ok |-> FALSE]

\* date.strftime("%Y-%m-%d")
Strftime(t) == PadDigits(t.y, 4) \o <<"-">> \o PadDigits(t.m, 2) \o <<"-">> \o PadDigits(t.d, 2)

\* how a step's call can end: main.py passes the date label to
\* open_and_cycle_outlets, which takes no parameter, so that call raises
\* TypeError; the other two return or raise
StepOutcomes(step) ==
    IF step = "Swiggy Main Dashboard" THEN {"raised"} ELSE {"returned", "raised"}

InitMain ==
    /\ writer = "reviews"
    /\ store = <<Header("reviews")>>
    /\ S0 = store
    /\ S1 = <<>>
    /\ seen = {}
    /\ pc = "start"
    /\ run = 1
    /\ R1 = <<>>
    /\ pos = 1
    /\ calls = 0
    /\ nhash = 0
    /\ clean1 = TRUE
    /\ failedOnce = {}
    /\ loaded = FALSE
    /\ last = Step("init", NoRec, "none")
    /\ modes = {}
    /\ everSeen = {}
    /\ nvIn = NoInput /\ nvOut = NoInput /\ nvBack = NoInput /\ zvOut = NoInput
    /\ nvTwice = NoInput
    /\ NoUnits
    /\ hIn = NoInput /\ hOut = NoInput
    /\ mainPc = "inputs" /\ attempted = <<>> /\ caught = {}
    /\ swiggy_date_label = E /\ zomato_date_label = E
    /\ NoNav /\ NoWait

\* main.py 20-32: the two dates are read; input() raises EOFError when the
\* process has no standard input, and nothing catches it
ReadInputs(eof, typed_label, typed_date) ==
    /\ mainPc = "inputs"
    /\ IF eof
       THEN /\ mainPc' = "crashed"
            /\ UNCHANGED <<swiggy_date_label, zomato_date_label>>
       ELSE /\ mainPc' = "steps"
            /\ swiggy_date_label' = IF Strip(typed_label) = E THEN UnknownDate
                                    ELSE Strip(typed_label)
            /\ zomato_date_label' = LET t == Strptime(Strip(typed_date))
                                    IN  IF t.ok THEN Strftime(t) ELSE DefaultZomatoDate
    /\ UNCHANGED <<attempted, caught, gateVars, normVars, unitVars, hashVars, navVars, waitVars>>

\* mutant: the except clause of a step re-raises
RunStep_Reraises(outcome) ==
    /\ mainPc = "steps" /\ Len(attempted) < Len(Steps)
    /\ LET step == Steps[Len(attempted) + 1]
       IN  /\ outcome \in StepOutcomes(step)
           /\ attempted' = Append(attempted, step)
           /\ caught' = caught
           /\ mainPc' = IF outcome = "raised" THEN "crashed" ELSE mainPc
    /\ UNCHANGED <<swiggy_date_label, zomato_date_label,
                   gateVars, normVars, unitVars, hashVars, navVars, waitVars>>

\* main.py 47-86: the next try block calls its scraper; except Exception
\* prints the failure and the sequence goes on
RunStep(outcome) ==
    /\ mainPc = "steps" /\ Len(attempted) < Len(Steps)
    /\ LET step == Steps[Len(attempted) + 1]
       IN  /\ outcome \in StepOutcomes(step)
           /\ attempted' = Append(attempted, step)
           /\ caught' = IF outcome = "raised" THEN caught \cup {step} ELSE caught
           /\ mainPc' = mainPc
    /\ UNCHANGED <<swiggy_date_label, zomato_date_label,
                   gateVars, normVars, unitVars, hashVars, navVars, waitVars>>

\* main.py 88: "All scraping tasks complete."
Complete ==
    /\ mainPc = "steps" /\ Len(attempted) = Len(Steps)
    /\ mainPc' = "complete"
    /\ UNCHANGED <<attempted, caught, swiggy_date_label, zomato_date_label,
                   gateVars, normVars, unitVars, hashVars, navVars, waitVars>>

NextMain ==
    \/ \E eof \in BOOLEAN, typed_label \in SwiggyDateInputs, typed_date \in ZomatoDateInputs :
          ReadInputs(eof, typed_label, typed_date)
    \/ \E outcome \in {"returned", "raised"} : RunStep(outcome)
    \/ Complete

\* every call of a scraper returns or raises, and the interpreter goes on
SpecMain == InitMain /\ [][NextMain]_vars /\ WF_vars(NextMain)

----------------------------------------------------------------------------
(* ZomatoMain.py: the navigation to the partner pages before the outlet loop *)

\* for attempt in range(3)
NavRounds == 3

\* len(urls_to_try)
UrlsToTry == 3

\* how one page.goto can end: it raises, the response is not OK, the page is
\* loaded but validate_login_state gives False, or the login is validated
GotoResults == {"goto_raised", "not_ok", "not_logged_in", "validated"}

InitNav ==
    /\ writer = "ZomatoMain"
    /\ store \in UnitInitStores(writer)
    /\ S0 = store
    /\ S1 = <<>>
    /\ seen = {}
    /\ pc = "navigate"
    /\ run = 1
    /\ R1 = <<>>
    /\ pos = 1
    /\ calls = 0
    /\ nhash = 0
    /\ clean1 = TRUE
    /\ failedOnce = {}
    /\ loaded = FALSE
    /\ last = Step("init", NoRec, "none")
    /\ modes = {}
    /\ everSeen = {}
    /\ nvIn = NoInput /\ nvOut = NoInput /\ nvBack = NoInput /\ zvOut = NoInput
    /\ nvTwice = NoInput
    /\ outlet = 1 /\ unit = 0 /\ total = 0
    /\ missed = {}
    /\ ext = NoInput
    /\ hIn = NoInput /\ hOut = NoInput
    /\ NoMain /\ NoWait
    /\ navAttempt = 0 /\ navUrl = 1 /\ gotos = 0 /\ success = FALSE /\ validatedLoads = 0

\* mutant: a page that loaded with an OK response counts as a success without
\* the login check
TryUrl_SkipsValidation(result, pauseOk) ==
    /\ writer = "ZomatoMain" /\ pc = "navigate"
    /\ gotos' = gotos + 1
    /\ last' = Step("goto", NoRec, result)
    /\ IF result \in {"validated", "not_logged_in"}
       THEN /\ success' = TRUE /\ pc' = "reports"
            /\ validatedLoads' = IF result = "validated" THEN validatedLoads + 1
                                 ELSE validatedLoads
            /\ UNCHANGED <<navAttempt, navUrl>>
       ELSE /\ UNCHANGED <<success, validatedLoads>>
            /\ IF navUrl < UrlsToTry
               THEN /\ navUrl' = navUrl + 1 /\ UNCHANGED <<navAttempt, pc>>
               ELSE IF navAttempt < NavRounds - 1 /\ pauseOk
                    THEN /\ navAttempt' = navAttempt + 1 /\ navUrl' = 1 /\ UNCHANGED pc
                    ELSE /\ pc' = "raised" /\ UNCHANGED <<navAttempt, navUrl>>
    /\ UNCHANGED <<writer, store, seen, run, R1, pos, calls, nhash, S0, S1, clean1, failedOnce,
                   loaded, modes, everSeen, normVars, unitVars, hashVars, mainVars, waitVars>>

\* ZomatoMain.py 381-416: one pass of the inner loop. A validated load sets
\* success and leaves both loops; anything else goes on with the next URL
\* (the raise at 402 is caught at 404); after the last URL of a round the
\* scraper pauses (413, outside the try) and starts the next round, and after
\* the last round it raises (416)
TryUrl(result, pauseOk) ==
    /\ writer = "ZomatoMain" /\ pc = "navigate"
    /\ gotos' = gotos + 1
    /\ last' = Step("goto", NoRec, result)
    /\ IF result = "validated"
       THEN /\ success' = TRUE /\ pc' = "reports"
            /\ validatedLoads' = validatedLoads + 1
            /\ UNCHANGED <<navAttempt, navUrl>>
       ELSE /\ UNCHANGED <<success, validatedLoads>>
            /\ IF navUrl < UrlsToTry
               THEN /\ navUrl' = navUrl + 1 /\ UNCHANGED <<navAttempt, pc>>
               ELSE IF navAttempt < NavRounds - 1 /\ pauseOk
                    THEN /\ navAttempt' = navAttempt + 1 /\ navUrl' = 1 /\ UNCHANGED pc
                    ELSE /\ pc' = "raised" /\ UNCHANGED <<navAttempt, navUrl>>
    /\ UNCHANGED <<writer, store, seen, run, R1, pos, calls, nhash, S0, S1, clean1, failedOnce,
                   loaded, modes, everSeen, normVars, unitVars, hashVars, mainVars, waitVars>>

\* ZomatoMain.py 418-479: popups are dismissed and the reports page is opened,
\* every failure caught; only the input() at 479 can raise
OpenReports(ev) ==
    /\ writer = "ZomatoMain" /\ pc = "reports"
    /\ pc' = IF ev = "ready" THEN "outlets" ELSE "raised"
    /\ last' = Step("reports", NoRec, ev)
    /\ UNCHANGED <<writer, store, seen, run, R1, pos, calls, nhash, S0, S1, clean1, failedOnce,
                   loaded, modes, everSeen, normVars, unitVars, hashVars, procVars>>

NextNav ==
    \/ \E result \in GotoResults, pauseOk \in BOOLEAN : TryUrl(result, pauseOk)
    \/ \E ev \in {"ready", "input_raised"} : OpenReports(ev)
    \/ \E ev \in {"error", "found"} : SelectOutlet(ev, 1)
    \/ \E parsed_data \in [Range(ZomatoLabels) -> ZomatoValues] :
          \E fails \in SUBSET Issued("ZomatoMain", parsed_data) :
            ProcessZomatoOutlet(parsed_data, fails)

SpecNav == InitNav /\ [][NextNav]_vars

----------------------------------------------------------------------------
(* complaintsz.py wait_for_element_with_retry *)

\* the largest value of the retries argument
MaxRetries == 4

\* how one page.wait_for_selector can end: the element is there, the wait
\* times out, or the page reports another error
WaitResults == {"found", "timeout", "error"}

InitWait ==
    /\ writer = "complaintsz"
    /\ store = <<Header("complaintsz")>>
    /\ S0 = store
    /\ S1 = <<>>
    /\ seen = {}
    /\ pc = "start"
    /\ run = 1
    /\ R1 = <<>>
    /\ pos = 1
    /\ calls = 0
    /\ nhash = 0
    /\ clean1 = TRUE
    /\ failedOnce = {}
    /\ loaded = FALSE
    /\ last = Step("init", NoRec, "none")
    /\ modes = {}
    /\ everSeen = {}
    /\ nvIn = NoInput /\ nvOut = NoInput /\ nvBack = NoInput /\ zvOut = NoInput
    /\ nvTwice = NoInput
    /\ NoUnits
    /\ hIn = NoInput /\ hOut = NoInput
    /\ NoMain /\ NoNav
    /\ retries \in 0..MaxRetries
    /\ wAttempt = 0 /\ wPc = "loop" /\ wLog = <<>>

\* 146-152, 154-155: one pass of the loop up to the pause
WaitAttempt(result) ==
    /\ wPc = "loop" /\ wAttempt < retries
    /\ wLog' = Append(wLog, result)
    /\ wPc' = IF result = "found" THEN "returned_true"
              ELSE IF wAttempt < retries - 1 THEN "pause"
              ELSE "returned_false"
    /\ UNCHANGED <<retries, wAttempt, gateVars, normVars, unitVars, hashVars, mainVars, navVars>>

\* 153: page.wait_for_timeout(2000) inside the except clause; when it raises
\* nothing catches the exception
Pause(pauseOk) ==
    /\ wPc = "pause"
    /\ IF pauseOk
       THEN /\ wLog' = Append(wLog, "pause")
            /\ wAttempt' = wAttempt + 1
            /\ wPc' = "loop"
       ELSE /\ wPc' = "raised"
            /\ UNCHANGED <<wLog, wAttempt>>
    /\ UNCHANGED <<retries, gateVars, normVars, unitVars, hashVars, mainVars, navVars>>

\* 156: the loop ends without a pass (retries is 0)
ReturnAfterLoop ==
    /\ wPc = "loop" /\ wAttempt >= retries
    /\ wPc' = "returned_false"
    /\ UNCHANGED <<retries, wAttempt, wLog, gateVars, normVars, unitVars, hashVars, mainVars,
                   navVars>>

NextWait ==
    \/ \E result \in WaitResults : WaitAttempt(result)
    \/ \E pauseOk \in BOOLEAN : Pause(pauseOk)
    \/ ReturnAfterLoop

SpecWait == InitWait /\ [][NextWait]_vars

----------------------------------------------------------------------------
(* Properties of the Append Gate and the Index Loader *)

\* this step was one gate call, made for the record last'.rec
GateStep == last'.op = "gate" /\ (R1' # R1 \/ pos' # pos)

\* C1: with a per-record gate, a sheet that started without duplicate natural
\* keys never holds two data rows with the same natural key.
C1_NoTwoRowsWithSameKey ==
    writer \in PerRecord => NoDuplicateKeys(writer, store)

C3_DuplicateLeavesStoreAndIndex ==
    [][(GateStep /\ Strip(last'.rec.key) # E /\ DigestOf(writer, last'.rec) \in seen)
        => (store' = store /\ seen' = seen /\ calls' = calls)]_vars

\* C3 witness: a record was skipped whose other fields differ from the stored row's.
C3_Witness ==
    /\ last.op = "gate" /\ last.outcome = "Skipped"
    /\ last.rec.body = <<"y">>
    /\ DigestOf(writer, last.rec) \in seen
    /\ \E i \in 2..Len(store) : store[i] = RowOf(writer, [last.rec EXCEPT !.body = <<"x">>])

\* C4: a gate call for a record with an empty or blank natural key computes no
\* digest, issues no append call and leaves the sheet and the index unchanged.
C4_BlankKeyRejected ==
    [][(GateStep /\ Strip(last'.rec.key) = E)
        => (store' = store /\ seen' = seen /\ calls' = calls /\ nhash' = nhash)]_vars

\* C4 witness: a record with a blank key was handed over and rejected.
C4_Witness ==
    /\ last.op = "gate" /\ last.outcome = "Rejected"
    /\ Strip(last.rec.key) = E
    /\ Len(store) > 1

\* C5: a gate call changes the index only by adding the record's digest together
\* with the appended row, and a gate call whose append fails leaves the index as
\* it was.
C5_DigestOnlyAfterAppend ==
    [][GateStep =>
        /\ seen' # seen =>
             /\ store' = Append(store, RowOf(writer, last'.rec))
             /\ seen' = seen \cup {DigestOf(writer, last'.rec)}
        /\ (calls' = calls + 1 /\ store' = store) => seen' = seen]_vars

\* C5 witness: an append call failed and the record's digest is not in the index.
C5_Witness ==
    /\ last.op = "gate" /\ last.outcome = "WriteFailed"
    /\ calls > 0
    /\ DigestOf(writer, last.rec) \notin seen

\* C6: (complaintsz.py, reviews.py) a natural key whose append call failed once
\* has its digest in the index only when its row is in the sheet, and the sheet
\* never holds more than one row for it.
C6_RetryIndexedOnce ==
    writer \in {"complaintsz", "reviews"} =>
        \A k \in failedOnce :
            /\ RowsWithKey(writer, store, k) <= 1
            /\ sha256(k) \in seen => RowsWithKey(writer, store, k) = 1

\* C6 witness: the retry of a record whose first append failed has just succeeded.
C6_Witness ==
    /\ writer \in {"complaintsz", "reviews"}
    /\ last.op = "gate" /\ last.outcome = "Indexed"
    /\ Strip(last.rec.key) \in failedOnce
    /\ sha256(Strip(last.rec.key)) \in seen
    /\ RowsWithKey(writer, store, Strip(last.rec.key)) = 1

\* the index the first gate call of the first run sees
StartIndex(w) ==
    CASE w = "complaintsz" -> LoadComplaintsZ(S0).seen
      [] w = "reviews" -> LoadReviews(S0).seen
      [] w = "reviewsz" -> IF loaded THEN LoadReviewsZ(S0).seen ELSE {}

\* C7: records with pairwise distinct, non-blank natural keys, none in the index,
\* whose appends all succeed, are appended one row each in the order received.
C7_AppendedInOrder ==
    (/\ writer \in PerRecord /\ run = 1 /\ clean1
     /\ \A i \in 1..Len(R1) :
           /\ Strip(R1[i].key) # E
           /\ DigestOf(writer, Scraped(writer, R1[i])) \notin StartIndex(writer)
           /\ \A j \in 1..Len(R1) : i # j => Strip(R1[i].key) # Strip(R1[j].key))
    => store = S0 \o [i \in 1..Len(R1) |-> RowOf(writer, Scraped(writer, R1[i]))]

\* C7 witness: two records with different keys were appended after the old rows.
C7_Witness ==
    /\ writer \in PerRecord /\ run = 1 /\ clean1
    /\ Len(R1) = 2 /\ Strip(R1[1].key) = A1 /\ Strip(R1[2].key) = A2
    /\ Len(store) = Len(S0) + 2
    /\ store[Len(store)] = RowOf(writer, Scraped(writer, R1[2]))

\* C8: no loader raises on the content of the sheet, whatever the length of its rows.
C8_LoaderToleratesShortRows ==
    last.outcome # "IndexError"

\* C9: every append call is issued with an index that was built from a
\* successful read of the sheet.
C9_NoAppendWithoutBaseline ==
    [][calls' > calls => loaded']_vars

----------------------------------------------------------------------------
(* Properties of the Record Normalizer *)

HasDigit(s) == \E i \in 1..Len(s) : s[i] \in Digits

\* "N/A" in any letter case
IsNaText(s) == Len(s) = 3 /\ s[1] \in {"N", "n"} /\ s[2] = "/" /\ s[3] \in {"A", "a"}

DigitsOf(s) == SelectSeq(s, LAMBDA c : c \in Digits)

\* number of digits of s after its first decimal point
DigitsAfterPoint(s) ==
    LET p == CHOOSE i \in 1..Len(s) : s[i] = "." /\ \A j \in 1..(i - 1) : s[j] # "."
    IN  Cardinality({i \in (p + 1)..Len(s) : s[i] \in Digits})

Converted == nvOut # NoInput /\ nvIn.tag = "Str"

\* C10 as stated: no digit gives the MissingMarker, a kept decimal point gives a
\* Float, any other string with a digit gives the Integer of its digits.
C10_NormalizerClasses ==
    Converted =>
        LET s == nvIn.s
        IN  /\ (s = E \/ IsNaText(s) \/ ~HasDigit(s)) => nvOut = NA
            /\ (HasDigit(s) /\ CountDots(s) >= 1) => nvOut.tag = "Float"
            /\ (HasDigit(s) /\ CountDots(s) = 0) => nvOut = Int_(DigitsToNat(DigitsOf(s)))

\* C10 amended: a string with a digit gives a Float when it keeps exactly one
\* decimal point and the MissingMarker when it keeps more than one.
C10_NormalizerClassesOnePoint ==
    Converted =>
        LET s == nvIn.s
        IN  /\ (s = E \/ IsNaText(s) \/ ~HasDigit(s)) => nvOut = NA
            /\ (HasDigit(s) /\ CountDots(s) = 1) =>
                   nvOut = Float_(DigitsToNat(DigitsOf(s)), DigitsAfterPoint(s))
            /\ (HasDigit(s) /\ CountDots(s) > 1) => nvOut = NA
            /\ (HasDigit(s) /\ CountDots(s) = 0) => nvOut = Int_(DigitsToNat(DigitsOf(s)))

\* C10 witness: "10.5" was normalized to the float 10.5
C10_Witness ==
    /\ nvIn = Str(<<"1", "0", ".", "5">>)
    /\ nvOut = [tag |-> "Float", m |-> 105, e |-> 1]

\* C11: convert_value never raises: for every raw value it returns an int, a
\* float or "N/A", and it returns "N/A" for a string that keeps more than one
\* decimal point or nothing but a decimal point.
C11_NormalizerNeverRaises ==
    nvOut # NoInput =>
        /\ nvOut.tag \in {"Int", "Float", "NA"}
        /\ (nvIn.tag = "Str" /\ (CountDots(nvIn.s) > 1 \/ Cleaned(nvIn.s) = <<".">>))
               => nvOut = NA

\* C11 witness: "1.5." keeps two decimal points and was normalized to "N/A"
C11_Witness ==
    /\ nvIn = Str(<<"1", ".", "5", ".">>)
    /\ nvOut = NA

\* the ASCII digits and decimal points of a string
AsciiKept(s) == SelectSeq(s, LAMBDA c : c \in AsciiDigits \/ c = ".")

\* C12 as stated: the result for a string is the result for its ASCII digits and
\* decimal points alone, so no other character changes it.
C12_DependsOnAsciiDigitsAndPoints ==
    Converted => nvOut = convert_value(Str(AsciiKept(nvIn.s)))

\* C12 amended: the result for a string is the result for its decimal digits (of
\* any script) and decimal points alone; "85.0%" gives 85.0, "12.5 min" gives
\* 12.5 and "Rs9,600" gives 9600.
C12_DependsOnDigitsAndPoints ==
    Converted =>
        /\ nvOut = convert_value(Str(Cleaned(nvIn.s)))
        /\ nvIn.s = <<"8", "5", ".", "0", "%">> => nvOut = Float_(85, 0)
        /\ nvIn.s = <<"1", "2", ".", "5", " ", "m", "i", "n">> => nvOut = Float_(125, 1)
        /\ nvIn.s = <<"Rs", "9", ",", "6", "0", "0">> => nvOut = Int_(9600)

\* C12 witness: "12.5 min" was normalized to the float 12.5
C12_Witness ==
    /\ nvIn = Str(<<"1", "2", ".", "5", " ", "m", "i", "n">>)
    /\ nvOut = [tag |-> "Float", m |-> 125, e |-> 1]

\* two numbers of the same magnitude, whatever their types
SameMagnitude(a, b) ==
    LET Mant(x) == IF x.tag = "Int" THEN x.v ELSE x.m
        Expo(x) == IF x.tag = "Int" THEN 0 ELSE x.e
    IN  /\ a.tag \in {"Int", "Float"} /\ b.tag \in {"Int", "Float"}
        /\ Mant(a) * Pow10(Expo(b)) = Mant(b) * Pow10(Expo(a))

\* C13: a normalized number, written back as a string and normalized again, is a
\* number of the same magnitude.
C13_RoundTripSameMagnitude ==
    nvBack # NoInput => SameMagnitude(nvBack, nvOut)

----------------------------------------------------------------------------
(* Properties of the unit loops and of the writers' append calls *)

\* the composite key of a dashboard row: outlet, metric label, report date
DashKey(row) == <<row[2], row[3], row[1]>>

\* C14: the sheet of a dashboard-metrics writer never holds two rows with the
\* same outlet, metric label and report date.
C14_OneRowPerOutletMetricDate ==
    writer \in Dashboards =>
        \A i, j \in 1..Len(store) : i # j => DashKey(store[i]) # DashKey(store[j])

\* C15: whatever errors the units met, the loops reach every unit that was
\* found: no unit of the work list is left out.
C15_EveryUnitAttempted ==
    missed = {}

\* C16: every unit whose text went to the text-generation service gets a
\* record, from the regex extractor when the service is down or its response
\* is not JSON.
C16_FallsBackToRegex ==
    ext # NoInput =>
        /\ ext.via \in {"gemini", "regex"}
        /\ ~ext.up => ext.via = "regex"

\* C17: every append call is issued with the value input option USER_ENTERED.
C17_InterpretedModeOnly ==
    modes \subseteq {"USER_ENTERED"}

\* C18: a gate call whose append fails has issued the append call twice.
C18_FailedAppendRetriedOnce ==
    [][(GateStep /\ last'.outcome = "WriteFailed") => calls' = calls + 2]_vars

\* the designated key fields of a record, as the writer's hasher reads them
KeyFields(w, rec) ==
    IF w = "reviewsz" THEN <<Strip(rec.key)>> ELSE <<Strip(rec.key), Strip(rec.ts)>>

KeyLess(w, rec) == \A i \in DOMAIN KeyFields(w, rec) : KeyFields(w, rec)[i] = E

\* C19: the hasher is a function of the designated key fields: two records
\* with equal, not all empty, key fields get equal digests whatever their
\* other fields hold, and two key-less records with different contents get
\* different digests (the fallback to the whole record representation).
C19_HasherPureWithFallback ==
    hOut # NoInput =>
        LET a == hIn[1]
            b == hIn[2]
        IN  /\ (KeyFields(writer, a) = KeyFields(writer, b) /\ ~KeyLess(writer, a))
                => hOut[1] = hOut[2]
            /\ (KeyLess(writer, a) /\ KeyLess(writer, b) /\ a # b)
                => hOut[1] # hOut[2]

\* C20: the index never shrinks during a run: every digest that was in the
\* index earlier in the run (loaded from the store or added after an append)
\* is in the index that the gate calls use now, later outlets included.
C20_IndexNeverShrinks ==
    (writer \in PerRecord /\ pc = "gate") => everSeen \subseteq seen

\* reviews.py appended a row for one outlet and has rebuilt the index from
\* the sheet for the next outlet
C20_Witness ==
    /\ writer = "reviews" /\ pc = "gate"
    /\ last.op = "load" /\ last.outcome = "ok"
    /\ Len(store) > Len(S0) /\ run = 1
    /\ everSeen # {} /\ everSeen \subseteq seen
    /\ Cardinality(seen) > Cardinality(LoadReviews(S0).seen)

\* the digests of the non-empty natural keys of the data rows of the sheet
StoreDigests(w, st) ==
    {DigestOf(w, [key |-> KeyOf(w, st[i]), ts |-> E, body |-> E]) :
        i \in {j \in 2..Len(st) : KeyOf(w, st[j]) # E}}

\* C21: while a run makes gate calls, the index is exactly the set of digests
\* of the non-empty natural keys of the data rows in the sheet: no digest of
\* a record that was not persisted, and every digest of one that was.
C21_IndexEqualsStoreDigests ==
    (writer \in PerRecord /\ pc = "gate") => seen = StoreDigests(writer, store)

ComplaintIdOf(row) == IF Len(row) >= 2 THEN Cell(row, 2) ELSE E

\* C23: the batch writer of complaints.py appends at most one row per
\* complaint ID: no appended row carries the complaint ID of an earlier row,
\* be it a row the sheet already held or a row of the same batch.
C23_BatchAppendsOneRowPerId ==
    writer = "complaints" =>
        \A j \in (Len(S0) + 1)..Len(store) : \A i \in 2..(j - 1) :
            Strip(ComplaintIdOf(store[j])) # E
                => ComplaintIdOf(store[i]) # ComplaintIdOf(store[j])

\* the cell the Zomato writer puts in its row, the text "N/A" read as the
\* MissingMarker
ZomatoCell(v) == IF v = Str(NaText) THEN NA ELSE v

\* C24: the Zomato writer's conversion of a raw metric value never raises
\* (the metric row is not dropped) and gives what convert_value gives: the
\* MissingMarker, a Float for one decimal point, an Integer otherwise.
C24_ZomatoAgreesWithNormalizer ==
    zvOut # NoInput =>
        /\ zvOut # ValueError
        /\ ZomatoCell(zvOut) = convert_value(nvIn)

\* C25: the loader and the gate hash the same form of the natural key: when
\* the index was loaded from the sheet, a record the gate appends is the only
\* row of the sheet with its key, keys compared after strip().
C25_LoaderAndGateAgreeOnKey ==
    (writer \in PerRecord /\ loaded /\ last.op = "gate" /\ last.outcome = "Indexed")
        => RowsWithKey(writer, store, Strip(last.rec.key)) = 1

\* C26: every row the Swiggy dashboard writer appends carries a number, an
\* Integer or a Float, never the MissingMarker.
C26_AppendedValueIsNumeric ==
    writer = "SwiggyMain" =>
        \A i \in (Len(S0) + 1)..Len(store) : store[i][4].tag \in {"Int", "Float"}

\* Python's == on two results of convert_value
PyEq(a, b) == a = b \/ SameMagnitude(a, b)

\* C27: convert_value is idempotent: applied to its own result it gives that
\* result again.
C27_ConvertValueIdempotent ==
    nvTwice # NoInput => PyEq(nvTwice, nvOut)

\* the first n steps of main.py, in its order
FirstSteps(n) == SubSeq(Steps, 1, n)

\* C28: the steps attempted are always the first steps of main.py's order,
\* each once; every exception a step raised was caught; the final point is
\* reached only after all three were attempted; and once the sequence has
\* started, the final point is always reached.
C28_StepsOnceInOrderToCompletion ==
    /\ [](/\ attempted = FirstSteps(Len(attempted))
          /\ caught \subseteq Range(attempted)
          /\ (mainPc = "complete" => attempted = Steps))
    /\ (mainPc = "steps" ~> mainPc = "complete")

\* the sequence ended although the first and the second step raised
C28_Witness ==
    /\ mainPc = "complete" /\ attempted = Steps
    /\ {"Swiggy Reviews", "Swiggy Main Dashboard"} \subseteq caught
    /\ "Zomato Main Dashboard" \notin caught

\* the scraper is past the navigation: it is in, or through, the outlet loop
InOutletLoop == pc \in {"outlets", "units", "done"}

\* C29: the Zomato dashboard scraper makes at most 3 rounds over the 3 URLs;
\* it is in the outlet loop, and the sheet has changed, only after a load
\* whose login was validated; no goto follows the validated load; and when
\* it raised, the sheet is as it was.
C29_OutletsOnlyAfterValidatedLoad ==
    writer = "ZomatoMain" =>
        /\ gotos <= NavRounds * UrlsToTry
        /\ (InOutletLoop \/ store # S0) => (success /\ validatedLoads = 1)
        /\ success <=> validatedLoads = 1
        /\ success => gotos = navAttempt * UrlsToTry + navUrl
        /\ pc = "raised" => store = S0

\* the login was validated at the second URL of the third round and a row
\* was appended afterwards
C29_Witness ==
    /\ writer = "ZomatoMain" /\ success /\ validatedLoads = 1
    /\ navAttempt = NavRounds - 1 /\ navUrl = 2 /\ gotos = 8
    /\ Len(store) > Len(S0)

\* the wait attempts made so far, and the pauses
WaitsMade == Cardinality({i \in 1..Len(wLog) : wLog[i] # "pause"})

PausesMade == Cardinality({i \in 1..Len(wLog) : wLog[i] = "pause"})

\* C30: wait_for_element_with_retry makes at most retries attempts; it
\* returns True at the first attempt that finds the element; it returns False
\* exactly when all retries attempts failed, having paused between them and
\* not after the last; and it never raises.
C30_RetryHelperNeverRaises ==
    wPc # "none" =>
        /\ WaitsMade <= retries
        /\ wPc = "returned_true" =>
              /\ wLog[Len(wLog)] = "found"
              /\ \A i \in 1..(Len(wLog) - 1) : wLog[i] # "found"
        /\ wPc = "returned_false" =>
              /\ WaitsMade = retries
              /\ \A i \in 1..Len(wLog) : wLog[i] # "found"
              /\ PausesMade = IF retries = 0 THEN 0 ELSE retries - 1
        /\ (WaitsMade = retries /\ wPc \notin {"returned_true", "loop"}) => wPc = "returned_false"
        /\ wPc # "raised"

====
